---- MODULE Spec2Model ----
(***************************************************************************)
(* SkillShield (scripts/skillshield.py): the SkillScanner state machine.   *)
(* A scanner instance holds warnings, permissions and file_hashes; scan()  *)
(* resets them, selects the files below a path, evaluates each file        *)
(* against the rule catalog, optionally runs the deep-scan pass, and       *)
(* rates the warning list.                                                 *)
(*                                                                         *)
(* Text is modelled as a sequence of lines drawn from a fixed vocabulary   *)
(* (Lines).  What each regular expression of the source finds in a line    *)
(* was computed with Python's re on the line's text and is tabulated in    *)
(* LineHits, LineUrls, LineImports, LineBase64 and LineHex; no match of    *)
(* the source's patterns spans two vocabulary lines.  Descriptions that    *)
(* are Chinese in the source are written as ASCII strings here, one        *)
(* string per source string.                                               *)
(***************************************************************************)
EXTENDS Integers, Sequences, FiniteSets, TLC

VARIABLES
    fs,             \* the file tree: path -> [content, mode]
    order,          \* the order in which os.walk lists the tree's files
    warnings,       \* self.warnings
    permissions,    \* self.permissions
    file_hashes,    \* self.file_hashes
    pc,             \* position inside scan(): "ready", "files", "deep", "rate"
    skill_path,     \* scan()'s argument skill_path
    deep_scan,      \* scan()'s argument deep_scan
    files_to_scan,  \* scan()'s local files_to_scan
    idx,            \* index of the next file of the for loop
    result,         \* the value the last scan() call returned (<<>>: none yet)
    first,          \* history: the first scan() call's arguments and what it returned
    visited,        \* history: the paths whose content this scan has opened
    edits,          \* history: number of lines added to files so far
    refs,           \* the objects self.warnings and self.file_hashes are bound to
    report,         \* the text format_report last returned (<<>>: none yet)
    cli             \* main(): the command line's outcome and exit status

vars == <<fs, order, warnings, permissions, file_hashes, pc, skill_path,
          deep_scan, files_to_scan, idx, result, first, visited, edits,
          refs, report, cli>>

----------------------------------------------------------------------------
(* Rule catalog: (pattern, description, severity).                         *)

SENSITIVE_FILES == <<
    <<"\\.env",       "read .env file",          "high">>,
    <<"\\.bashrc",    "read .bashrc",            "medium">>,
    <<"\\.zshrc",     "read .zshrc",             "medium">>,
    <<"\\.ssh[/\\\\]", "access SSH directory",   "critical">>,
    <<"\\.aws[/\\\\]", "access AWS credentials", "critical">>,
    <<"\\.config[/\\\\]", "read config file",    "low">>,
    <<"password",     "access password file",    "high">>,
    <<"credential",   "access credential file",  "critical">>,
    <<"token",        "access token file",       "critical">>,
    <<"api_key",      "access API key",          "critical">>,
    <<"secret",       "access secret file",      "critical">>,
    <<"cookie",       "access cookie file",      "high">>,
    <<"\\.gitconfig", "read git config",         "medium">>,
    <<"\\.docker",    "access Docker config",    "medium">> >>

DANGEROUS_COMMANDS == <<
    <<"os\\.system\\s*\\(", "run system command (os.system)", "critical">>,
    <<"subprocess\\.(call|run|Popen)", "run subprocess (subprocess)", "high">>,
    <<"subprocess\\.check_output", "run subprocess and read output", "high">>,
    <<"exec\\s*\\(",  "dynamic code execution (exec)", "critical">>,
    <<"eval\\s*\\(",  "dynamic code execution (eval)", "critical">>,
    <<"__import__\\s*\\(", "dynamic module import", "medium">>,
    <<"compile\\s*\\(", "compile code",          "medium">>,
    <<"importlib",    "dynamic module import",   "medium">> >>

SUSPICIOUS_PATTERNS == <<
    <<"base64\\.(b64encode|b64decode)", "Base64 encode/decode", "medium">>,
    <<"encrypt|decrypt", "encrypt/decrypt operation", "low">>,
    <<"keylogger|keyboard|input", "keylogging related", "critical">>,
    <<"screenshot",   "screenshot",              "high">>,
    <<"webhook",      "Webhook call",            "low">>,
    <<"socket\\.",    "network socket operation", "medium">>,
    <<"ftplib|smtplib", "FTP/SMTP protocol",     "medium">>,
    <<"tempfile\\.(mkdtemp|mkstemp)", "create temp file", "low">> >>

SUSPICIOUS_DOMAINS ==
    <<"webhook", "pastebin", "requestbin", "hook", "ngrok",
      "burpcollaborator", "interactsh">>

request_patterns == <<
    "requests\\.(get|post|put|delete|patch)", "urllib\\.(request|urlopen)",
    "http\\.client", "fetch\\(", "axios\\.(get|post)", "curl\\s", "wget\\s" >>

scannable_extensions ==
    {".py", ".js", ".ts", ".md", ".sh", ".json", ".yaml", ".yml", ".toml", ".txt"}

non_source_dirs == {"node_modules", "__pycache__", "venv", ".git"}

env_read_pattern == "os\\.environ|getenv|os\\.getenv"
http_send_pattern == "requests\\.(post|put|patch)|urllib"
json_encode_pattern == "json\\.dumps"

----------------------------------------------------------------------------
(* The text vocabulary and what the source's patterns find in each line.   *)

Lines == {
    "import os",
    "v = os.getenv('HOME')",
    "requests.post(url, data=v)",
    "s = json.dumps(v)",
    "open('/home/u/.ssh/id_rsa')",
    "subprocess.run(cmd)",
    "eval(code)",
    "u = 'https://webhook.site/abc'",
    "import base64",
    "b = '\\x41\\x41\\x41\\x41\\x41\\x41\\x41'",
    "urllib.request.urlopen('https://api.example.com/data')",
    "# nothing to see" }

\* Lines that name many reads, hosts and modules: the texts whose permission
\* lists a report has to cut.
MaxDomains == 11    \* URLs of distinct hosts in a text
MaxImports == 21    \* import statements in a text

ReadFive == "cat .env .bashrc .zshrc .gitconfig .docker"
ReadSixth == "cat .config/app"
HostName(i) == "h" \o ToString(i) \o ".example.com"
UrlOf(i) == "https://" \o HostName(i) \o "/x"
UrlLine(i) == "u" \o ToString(i) \o " = '" \o UrlOf(i) \o "'"
ModuleName(i) == "m" \o ToString(i)
ImportLine(i) == "import " \o ModuleName(i)

\* The patterns p of the catalog (and of the exfiltration and request checks)
\* for which re.search(p, line) finds a match.
LineHits(line) ==
    CASE line = ReadFive -> {"\\.env", "\\.bashrc", "\\.zshrc", "\\.gitconfig", "\\.docker"}
      [] line = ReadSixth -> {"\\.config[/\\\\]"}
      [] line = "v = os.getenv('HOME')" -> {"os\\.environ|getenv|os\\.getenv"}
      [] line = "requests.post(url, data=v)" ->
            {"requests\\.(get|post|put|delete|patch)", "requests\\.(post|put|patch)|urllib"}
      [] line = "s = json.dumps(v)" -> {"json\\.dumps"}
      [] line = "open('/home/u/.ssh/id_rsa')" -> {"\\.ssh[/\\\\]"}
      [] line = "subprocess.run(cmd)" -> {"subprocess\\.(call|run|Popen)"}
      [] line = "eval(code)" -> {"eval\\s*\\("}
      [] line = "u = 'https://webhook.site/abc'" -> {"webhook"}
      [] line = "urllib.request.urlopen('https://api.example.com/data')" ->
            {"urllib\\.(request|urlopen)", "requests\\.(post|put|patch)|urllib"}
      [] OTHER -> {}

\* re.findall(url_pattern, line), in order of occurrence.
LineUrls(line) ==
    CASE line = "u = 'https://webhook.site/abc'" -> <<"https://webhook.site/abc">>
      [] line = "urllib.request.urlopen('https://api.example.com/data')" ->
            <<"https://api.example.com/data">>
      [] \E i \in 1..MaxDomains : line = UrlLine(i) ->
            <<UrlOf(CHOOSE i \in 1..MaxDomains : line = UrlLine(i))>>
      [] OTHER -> <<>>

\* What the three import_patterns capture in the line.
LineImports(line) ==
    CASE line = "import os" -> {"os"}
      [] line = "import base64" -> {"base64"}
      [] \E i \in 1..MaxImports : line = ImportLine(i) ->
            {ModuleName(CHOOSE i \in 1..MaxImports : line = ImportLine(i))}
      [] OTHER -> {}

\* len(re.findall(r'base64', line, re.IGNORECASE))
LineBase64(line) ==
    CASE line = "import base64" -> 1
      [] OTHER -> 0

\* len(re.findall(hex_pattern, line))
LineHex(line) ==
    CASE line = "b = '\\x41\\x41\\x41\\x41\\x41\\x41\\x41'" -> 7
      [] OTHER -> 0

\* re.search(r'https?://([^/]+)', url).group(1)
DomainOf(url) ==
    CASE url = "https://webhook.site/abc" -> "webhook.site"
      [] url = "https://api.example.com/data" -> "api.example.com"
      [] \E i \in 1..MaxDomains : url = UrlOf(i) ->
            HostName(CHOOSE i \in 1..MaxDomains : url = UrlOf(i))

\* The keywords susp of SUSPICIOUS_DOMAINS with susp in domain.lower().
SuspIn(domain) ==
    CASE domain = "webhook.site" -> {"webhook", "hook"}
      [] OTHER -> {}

\* re.search(pattern, content): the pattern matches in some line.
Search(pattern, content) ==
    \E i \in 1..Len(content) : pattern \in LineHits(content[i])

RECURSIVE FindUrls(_)
FindUrls(content) ==
    IF content = <<>> THEN <<>>
    ELSE LineUrls(Head(content)) \o FindUrls(Tail(content))

RECURSIVE CountBase64(_)
CountBase64(content) ==
    IF content = <<>> THEN 0
    ELSE LineBase64(Head(content)) + CountBase64(Tail(content))

RECURSIVE CountHex(_)
CountHex(content) ==
    IF content = <<>> THEN 0
    ELSE LineHex(Head(content)) + CountHex(Tail(content))

FindImports(content) ==
    UNION {LineImports(content[i]) : i \in 1..Len(content)}

----------------------------------------------------------------------------
(* Paths.  A path is a sequence of names below the skill's root; <<>> is   *)
(* the root directory itself.                                              *)

Names == {"a.py", "b.py", ".evil.py", "README", "lib", "src", "node_modules"}

\* name.startswith('.')
StartsWithDot(name) == name \in {".evil.py"}

\* The extension e of scannable_extensions with name.endswith(e), if any.
ExtensionOf(name) ==
    CASE name \in {"a.py", "b.py", ".evil.py"} -> ".py"
      [] OTHER -> ""

\* os.path.basename(filepath)
Basename(filepath) == filepath[Len(filepath)]

\* os.path.dirname(filepath)
Dirname(filepath) == SubSeq(filepath, 1, Len(filepath) - 1)

IsPrefix(p, q) == Len(p) <= Len(q) /\ SubSeq(q, 1, Len(p)) = p

\* The path as text, as str(e) of a failed open() prints it.
RECURSIVE PathText(_)
PathText(filepath) ==
    IF filepath = <<>> THEN "skill"
    ELSE PathText(Dirname(filepath)) \o "/" \o Basename(filepath)

IsFile(tree, path) == path \in DOMAIN tree

\* os.path.exists(path): the root, a file, or a directory holding a file.
Exists(tree, path) ==
    \/ path = <<>>
    \/ \E f \in DOMAIN tree : IsPrefix(path, f)

Range(seq) == {seq[i] : i \in 1..Len(seq)}

----------------------------------------------------------------------------
(* The aggregator: self.warnings with _add_warning's deduplication, and    *)
(* self.permissions.                                                       *)

EmptyPermissions == [
    files   |-> [read |-> {}, write |-> {}, delete |-> {}],
    network |-> [urls |-> {}, domains |-> {}],
    system  |-> [commands |-> {}, imports |-> {}],
    data    |-> [env_vars |-> {}, credentials |-> {}] ]

Warning(warning_type, severity, description, filename) ==
    [type |-> warning_type, severity |-> severity,
     description |-> description, file |-> filename]

AddWarning(ws, warning_type, severity, description, filename) ==
    LET warning == Warning(warning_type, severity, description, filename)
    IN  IF warning \in Range(ws) THEN ws ELSE Append(ws, warning)

\* One pass of "for pattern, desc, severity in rules: if re.search(...):
\* self._add_warning(category, severity, desc, filename)" from rule i on.
RECURSIVE RuleLoop(_, _, _, _, _, _)
RuleLoop(ws, rules, category, content, filename, i) ==
    IF i > Len(rules) THEN ws
    ELSE IF Search(rules[i][1], content)
    THEN RuleLoop(AddWarning(ws, category, rules[i][3], rules[i][2], filename),
                  rules, category, content, filename, i + 1)
    ELSE RuleLoop(ws, rules, category, content, filename, i + 1)

CheckSensitiveFiles(st, content, filename) ==
    [st EXCEPT
        !.warnings = RuleLoop(@, SENSITIVE_FILES, "sensitive_file", content, filename, 1),
        !.permissions.files.read =
            @ \cup {SENSITIVE_FILES[i][1] : i \in
                      {j \in 1..Len(SENSITIVE_FILES) : Search(SENSITIVE_FILES[j][1], content)}}]

\* "for susp in self.SUSPICIOUS_DOMAINS: if susp in domain.lower()" from keyword k on.
RECURSIVE SuspLoop(_, _, _, _)
SuspLoop(ws, domain, filename, k) ==
    IF k > Len(SUSPICIOUS_DOMAINS) THEN ws
    ELSE IF SUSPICIOUS_DOMAINS[k] \in SuspIn(domain)
    THEN SuspLoop(AddWarning(ws, "suspicious_network", "high",
                             "data may be sent to external service: " \o domain,
                             filename),
                  domain, filename, k + 1)
    ELSE SuspLoop(ws, domain, filename, k + 1)

\* "for url in matches" over the URLs found, in order.
RECURSIVE UrlLoop(_, _, _)
UrlLoop(ws, urls, filename) ==
    IF urls = <<>> THEN ws
    ELSE SuspLoop(UrlLoop(ws, SubSeq(urls, 1, Len(urls) - 1), filename),
                  DomainOf(urls[Len(urls)]), filename, 1)

CheckNetworkRequests(st, content, filename) ==
    LET matches == FindUrls(content)
    IN  [st EXCEPT
            !.warnings = UrlLoop(@, matches, filename),
            !.permissions.network.urls = @ \cup Range(matches),
            !.permissions.network.domains = @ \cup {DomainOf(u) : u \in Range(matches)},
            !.permissions.system.commands =
                @ \cup {p \in Range(request_patterns) : Search(p, content)}]

CheckSystemCommands(st, content, filename) ==
    [st EXCEPT
        !.warnings = RuleLoop(@, DANGEROUS_COMMANDS, "system_command", content, filename, 1)]

CheckSuspiciousPatterns(st, content, filename) ==
    [st EXCEPT
        !.warnings = RuleLoop(@, SUSPICIOUS_PATTERNS, "suspicious_pattern", content, filename, 1)]

\* CheckDataExfiltration without the escalation to critical.
CheckDataExfiltrationHigh(st, content, filename) ==
    IF Search(env_read_pattern, content) /\ Search(http_send_pattern, content)
    THEN [st EXCEPT !.warnings =
             AddWarning(@, "data_exfiltration", "high",
                        "may read environment variables and send them out", filename)]
    ELSE st

CheckDataExfiltration(st, content, filename) ==
    LET has_env_read == Search(env_read_pattern, content)
        has_http_send == Search(http_send_pattern, content)
        has_json_encode == Search(json_encode_pattern, content)
        severity == IF has_json_encode THEN "critical" ELSE "high"
    IN  IF has_env_read /\ has_http_send
        THEN [st EXCEPT !.warnings =
                 AddWarning(@, "data_exfiltration", severity,
                            "may read environment variables and send them out", filename)]
        ELSE st

CheckImports(st, content, filename) ==
    [st EXCEPT !.permissions.system.imports = @ \cup FindImports(content)]

Base64Threshold == 5
HexThreshold == 20

CheckObfuscation(st, content, filename) ==
    LET base64_count == CountBase64(content)
        hex_matches == CountHex(content)
        w1 == IF base64_count > Base64Threshold
              THEN AddWarning(st.warnings, "obfuscation", "medium",
                              "repeated Base64 encoding (" \o ToString(base64_count) \o " times)",
                              filename)
              ELSE st.warnings
        w2 == IF hex_matches > HexThreshold
              THEN AddWarning(w1, "obfuscation", "medium",
                              "hex encoding (" \o ToString(hex_matches) \o " places)",
                              filename)
              ELSE w1
    IN  [st EXCEPT !.warnings = w2]

\* hashlib.sha256(content.encode()).hexdigest()[:16]: a digest that is a
\* function of the content alone (distinct contents of the model get distinct
\* digests).
Digest(content) == <<"sha256", content>>

\* The str(e) of the exception a failed open() or read() raises: open()
\* names the path it was given, read() does not.
ErrorText(mode, filepath) ==
    IF mode = "openfail"
    THEN "[Errno 13] Permission denied: '" \o PathText(filepath) \o "'"
    ELSE "[Errno 5] Input/output error"

\* ScanFileError recording the failure at medium severity.
ScanFileErrorMedium(st, filepath, mode) ==
    [st EXCEPT !.warnings =
        Append(@, Warning("file_error", "medium",
                          "cannot read file: " \o ErrorText(mode, filepath),
                          Basename(filepath)))]

\* _scan_file's except branch.
ScanFileError(st, filepath, mode) ==
    [st EXCEPT !.warnings =
        Append(@, Warning("file_error", "low",
                          "cannot read file: " \o ErrorText(mode, filepath),
                          Basename(filepath)))]

\* _scan_file after a successful read.
ScanFileContent(st, filepath, content, deep) ==
    LET filename == Basename(filepath)
        s0 == [st EXCEPT !.file_hashes =
                  [n \in DOMAIN @ \cup {filename} |->
                      IF n = filename THEN Digest(content) ELSE @[n]]]
        s1 == CheckSensitiveFiles(s0, content, filename)
        s2 == CheckNetworkRequests(s1, content, filename)
        s3 == CheckSystemCommands(s2, content, filename)
        s4 == CheckSuspiciousPatterns(s3, content, filename)
        s5 == CheckDataExfiltration(s4, content, filename)
        s6 == CheckImports(s5, content, filename)
    IN  IF deep THEN CheckObfuscation(s6, content, filename) ELSE s6

----------------------------------------------------------------------------
(* The rating engine.                                                      *)

severity_weights(severity) ==
    CASE severity = "critical" -> 25
      [] severity = "high" -> 10
      [] severity = "medium" -> 5
      [] severity = "low" -> 2
      [] severity = "info" -> 0
      [] OTHER -> 5

\* The "for warning in self.warnings" loop from warning i on; acc holds
\* score, critical_count and high_count.
RECURSIVE RatingLoop(_, _, _)
RatingLoop(ws, i, acc) ==
    IF i > Len(ws) THEN acc
    ELSE LET severity == ws[i].severity
         IN  RatingLoop(ws, i + 1,
                [score |-> acc.score - severity_weights(severity),
                 critical_count |-> acc.critical_count
                                      + (IF severity = "critical" THEN 1 ELSE 0),
                 high_count |-> acc.high_count
                                  + (IF severity = "high" THEN 1 ELSE 0)])

Max(a, b) == IF a >= b THEN a ELSE b
Min(a, b) == IF a <= b THEN a ELSE b

\* PenalizedScore with the first penalty applied from three critical warnings on.
PenalizedScoreFromThree(acc) ==
    LET s1 == IF acc.critical_count > 2 THEN acc.score - 20 ELSE acc.score
        s2 == IF acc.high_count >= 3 THEN s1 - 10 ELSE s1
    IN  Max(0, Min(100, s2))

\* Lines 326-333: the two extra penalties and the clamp.
PenalizedScore(acc) ==
    LET s1 == IF acc.critical_count >= 2 THEN acc.score - 20 ELSE acc.score
        s2 == IF acc.high_count >= 3 THEN s1 - 10 ELSE s1
    IN  Max(0, Min(100, s2))

\* GradeOf with grade A from 89 on.
GradeOfAFrom89(score) ==
    IF score >= 95 THEN [grade |-> "A+", risk_level |-> "jidi"]
    ELSE IF score >= 89 THEN [grade |-> "A", risk_level |-> "di"]
    ELSE IF score >= 80 THEN [grade |-> "B", risk_level |-> "zhongdi"]
    ELSE IF score >= 70 THEN [grade |-> "C", risk_level |-> "zhongdeng"]
    ELSE IF score >= 60 THEN [grade |-> "D", risk_level |-> "gao"]
    ELSE [grade |-> "F", risk_level |-> "jigao"]

\* GradeOf with strict comparisons.
GradeOfStrict(score) ==
    IF score > 95 THEN [grade |-> "A+", risk_level |-> "jidi"]
    ELSE IF score > 90 THEN [grade |-> "A", risk_level |-> "di"]
    ELSE IF score > 80 THEN [grade |-> "B", risk_level |-> "zhongdi"]
    ELSE IF score > 70 THEN [grade |-> "C", risk_level |-> "zhongdeng"]
    ELSE IF score > 60 THEN [grade |-> "D", risk_level |-> "gao"]
    ELSE [grade |-> "F", risk_level |-> "jigao"]

\* Lines 335-353: the letter grade and the risk level of a score.
\* risk levels: jidi = very low, di = low, zhongdi = medium-low,
\* zhongdeng = medium, gao = high, jigao = very high.
GradeOf(score) ==
    IF score >= 95 THEN [grade |-> "A+", risk_level |-> "jidi"]
    ELSE IF score >= 90 THEN [grade |-> "A", risk_level |-> "di"]
    ELSE IF score >= 80 THEN [grade |-> "B", risk_level |-> "zhongdi"]
    ELSE IF score >= 70 THEN [grade |-> "C", risk_level |-> "zhongdeng"]
    ELSE IF score >= 60 THEN [grade |-> "D", risk_level |-> "gao"]
    ELSE [grade |-> "F", risk_level |-> "jigao"]

CalculateRating(ws) ==
    LET acc == RatingLoop(ws, 1, [score |-> 100, critical_count |-> 0, high_count |-> 0])
        score == PenalizedScore(acc)
    IN  [score |-> score,
         grade |-> GradeOf(score).grade,
         risk_level |-> GradeOf(score).risk_level,
         critical_count |-> acc.critical_count,
         high_count |-> acc.high_count]

\* list(a_set)[:cap]: the set's elements in the order the interpreter
\* iterates them (an order fixed by the set), cut to cap entries.
RECURSIVE ListOf(_)
ListOf(set) ==
    IF set = {} THEN <<>>
    ELSE LET x == CHOOSE y \in set : TRUE
         IN  <<x>> \o ListOf(set \ {x})

Take(seq, cap) == SubSeq(seq, 1, Min(cap, Len(seq)))

SerializePermissions(perms) == [
    files   |-> [read   |-> Take(ListOf(perms.files.read), 10),
                 write  |-> Take(ListOf(perms.files.write), 5),
                 delete |-> Take(ListOf(perms.files.delete), 5)],
    network |-> [urls    |-> Take(ListOf(perms.network.urls), 10),
                 domains |-> Take(ListOf(perms.network.domains), 10)],
    system  |-> [commands |-> Take(ListOf(perms.system.commands), 10),
                 imports  |-> Take(ListOf(perms.system.imports), 20)],
    data    |-> [env_vars    |-> ListOf(perms.data.env_vars),
                 credentials |-> ListOf(perms.data.credentials)] ]

GenerateSummary(ws) ==
    LET grade == CalculateRating(ws).grade
    IN  IF grade \in {"A+", "A"} THEN "looks very safe"
        ELSE IF grade = "B" THEN "generally trustworthy, review before use"
        ELSE IF grade = "C" THEN "medium risk, review carefully"
        ELSE IF grade = "D" THEN "high risk, avoid installing"
        ELSE "serious security risk, do not install"

\* 'subprocess' in p, for a pattern p of request_patterns: none holds the text.
HasSubprocessText(p) == p \in {}

GenerateRecommendations(ws, perms) ==
    LET rating == CalculateRating(ws)
        r1 == IF rating.critical_count > 0
              THEN <<"review all CRITICAL warnings at once">> ELSE <<>>
        r2 == IF rating.high_count > 0
              THEN <<"assess HIGH security risks carefully">> ELSE <<>>
        r3 == IF Cardinality(perms.network.domains) > 5
              THEN <<"skill accesses " \o ToString(Cardinality(perms.network.domains))
                       \o " external domains, confirm all are needed">>
              ELSE <<>>
        r4 == IF \E c \in perms.system.commands : HasSubprocessText(c)
              THEN <<"skill runs system commands, confirm the source is trusted">>
              ELSE <<>>
        recommendations == r1 \o r2 \o r3 \o r4
    IN  IF recommendations = <<>>
        THEN <<"no particular security problem found">>
        ELSE recommendations

----------------------------------------------------------------------------
(* File selection and the deep-scan pass.                                  *)

\* The directory names between the walk's top and the file.
DirsBelow(path, filepath) ==
    {filepath[i] : i \in (Len(path) + 1)..(Len(filepath) - 1)}

\* Line 145-146: the directories os.walk does not descend into.
Pruned(d) == StartsWithDot(d) \/ d \in non_source_dirs

Scannable(name) == ExtensionOf(name) \in scannable_extensions

Selected(path, filepath) ==
    /\ IsPrefix(path, filepath) /\ path # filepath
    /\ \A d \in DirsBelow(path, filepath) : ~Pruned(d)
    /\ Scannable(Basename(filepath))

GetFiles(tree, ord, path) ==
    IF IsFile(tree, path)
    THEN IF Scannable(Basename(path)) THEN <<path>> ELSE <<>>
    ELSE SelectSeq(ord, LAMBDA f : Selected(path, f))

\* _deep_scan's loop over the files os.walk(skill_path) lists, from entry i on.
RECURSIVE DeepLoop(_, _, _, _)
DeepLoop(ws, ord, path, i) ==
    IF i > Len(ord) THEN ws
    ELSE LET f == ord[i]
             next == IF IsPrefix(path, f) /\ path # f /\ StartsWithDot(Basename(f))
                     THEN AddWarning(ws, "hidden_file", "low",
                                     "found hidden file: " \o Basename(f), "")
                     ELSE ws
         IN  DeepLoop(next, ord, path, i + 1)

DeepScan(ws, ord, path) == DeepLoop(ws, ord, path, 1)

----------------------------------------------------------------------------
(* The environment: the file trees a scan is run on.                       *)

MaxFiles == 2       \* scannable files in a tree
MaxEdits == 1       \* lines added to files in a behaviour

\* Sample texts, each a sequence of vocabulary lines.
CleanText == <<"# nothing to see">>
CommandText == <<"subprocess.run(cmd)", "eval(code)">>
MaliciousText == <<"open('/home/u/.ssh/id_rsa')", "v = os.getenv('HOME')",
                   "s = json.dumps(v)", "requests.post(url, data=v)">>
Base64x6 == <<"import base64", "import base64", "import base64",
              "import base64", "import base64", "import base64">>
Base64x7 == Append(Base64x6, "import base64")

Samples == {CleanText, CommandText, MaliciousText, Base64x7}

ScannableSlots == {<<"b.py">>, <<"lib", "a.py">>, <<"src", "a.py">>}
OtherSlots == {<<"node_modules", ".evil.py">>, <<"README">>}

\* A readable file with some text, or a file whose open() or read() fails.
FileOptions(texts) ==
    {[content |-> c, mode |-> "ok"] : c \in texts}
        \cup {[content |-> CleanText, mode |-> m] : m \in {"openfail", "readfail"}}

\* The trees with at most MaxFiles scannable files, each with one of the texts.
TreesOf(texts) ==
    UNION {
        {[f \in D \cup E |-> IF f \in D THEN t[f]
                             ELSE [content |-> CommandText, mode |-> "ok"]]
            : t \in [D -> FileOptions(texts)]}
        : <<D, E>> \in {de \in (SUBSET ScannableSlots) \X {{<<"README">>}, OtherSlots}
                            : Cardinality(de[1]) <= MaxFiles} }

\* The orders in which os.walk (top-down) can list the files of a tree: a
\* directory's own files come before those of its subdirectories, and the
\* files below one directory are listed together.
IsWalkOrder(seq) ==
    /\ \A i, j \in 1..Len(seq) : i < j =>
          ~(Dirname(seq[j]) # Dirname(seq[i]) /\ IsPrefix(Dirname(seq[j]), Dirname(seq[i])))
    /\ \A i, j, k \in 1..Len(seq) : (i < k /\ k < j) =>
          \A n \in 1..Len(Dirname(seq[i])) :
              IsPrefix(SubSeq(seq[i], 1, n), seq[j]) => IsPrefix(SubSeq(seq[i], 1, n), seq[k])

WalkOrders(tree) ==
    {seq \in [1..Cardinality(DOMAIN tree) -> DOMAIN tree] :
        Range(seq) = DOMAIN tree /\ IsWalkOrder(seq)}

\* The paths scan() is called with.
ScanPaths == {<<>>, <<"b.py">>, <<"README">>}

----------------------------------------------------------------------------
(* The scanner.                                                            *)

St == [warnings |-> warnings, permissions |-> permissions, file_hashes |-> file_hashes]

\* Reset without line 90.
ResetKeepsWarnings(st) ==
    [warnings |-> st.warnings, permissions |-> EmptyPermissions, file_hashes |-> <<>>]

\* Lines 90-97: scan() starts by resetting the three collections.
Reset(st) ==
    [warnings |-> <<>>, permissions |-> EmptyPermissions, file_hashes |-> <<>>]

\* The object ids the first returned result refers to: a result refers to
\* the list self.warnings and the dict self.file_hashes themselves (lines 125
\* and 128), an error value to neither.
NoRefs == [warnings |-> -1, file_hashes |-> -1]

HeldRefs ==
    IF first.set THEN {first.refs.warnings, first.refs.file_hashes} ELSE {}

\* The id of a newly allocated object: the least id no held reference uses.
Fresh(held) ==
    CHOOSE i \in 0..3 : i \notin held /\ \A j \in 0..3 : j \notin held => i <= j

\* ResetRefs emptying the two collections in place (clear()).
ResetRefsInPlace(r) == r

\* Lines 90 and 97: "self.warnings = []" and "self.file_hashes = {}" bind the
\* attributes to newly allocated objects.
ResetRefs(r) ==
    LET w == Fresh(HeldRefs)
    IN  [warnings |-> w, file_hashes |-> Fresh(HeldRefs \cup {w})]

\* main() has not run.
NotStarted == [outcome |-> "none", status |-> -1]

\* NotFoundError returned together with an empty partial result.
NotFoundErrorPartial(path) ==
    [error |-> "Path not found: " \o PathText(path),
     warnings |-> <<>>, files_scanned |-> 0]

\* Lines 100 and 106: the two error values.
NotFoundError(path) == [error |-> "Path not found: " \o PathText(path)]
NoFilesError(path) == [error |-> "No scannable files found in: " \o PathText(path)]

\* Lines 119-131: the returned dict (scan_time, the wall clock, left out).
ScanResult(st, path, files) ==
    LET rating == CalculateRating(st.warnings)
    IN  [skill_path |-> path,
         trust_rating |-> rating.grade,
         score |-> rating.score,
         risk_level |-> rating.risk_level,
         warnings |-> st.warnings,
         permissions |-> SerializePermissions(st.permissions),
         files_scanned |-> Len(files),
         file_hashes |-> st.file_hashes,
         summary |-> GenerateSummary(st.warnings),
         recommendations |-> GenerateRecommendations(st.warnings, st.permissions)]

IsError(r) == "error" \in DOMAIN r
IsResult(r) == "score" \in DOMAIN r

\* History: once the first call has returned, a call with other arguments
\* marks the behaviour as interleaved.
NoteCall(path, deep) ==
    IF first.set /\ <<path, deep>> # <<first.skill_path, first.deep_scan>>
    THEN [first EXCEPT !.interleaved = TRUE]
    ELSE first

\* History: the first call to return is remembered with its arguments.
Remember(h, path, deep, r, rf) ==
    IF h.set THEN h
    ELSE [set |-> TRUE, interleaved |-> FALSE,
          skill_path |-> path, deep_scan |-> deep, result |-> r,
          refs |-> rf]

SetState(st) ==
    /\ warnings' = st.warnings
    /\ permissions' = st.permissions
    /\ file_hashes' = st.file_hashes

InitOn(trees) ==
    /\ fs \in trees
    /\ order = CHOOSE seq \in WalkOrders(fs) : TRUE
    /\ warnings = <<>>
    /\ permissions = EmptyPermissions
    /\ file_hashes = <<>>
    /\ pc = "ready"
    /\ skill_path = <<>>
    /\ deep_scan = FALSE
    /\ files_to_scan = <<>>
    /\ idx = 1
    /\ result = <<>>
    /\ first = [set |-> FALSE, interleaved |-> FALSE]
    /\ visited = {}
    /\ edits = 0
    /\ refs = [warnings |-> 0, file_hashes |-> 1]
    /\ report = <<>>
    /\ cli = NotStarted

Init == InitOn(TreesOf(Samples))

\* scan() on a path that does not exist (lines 90-100).
ScanNotFound(path, deep) ==
    /\ pc = "ready"
    /\ ~Exists(fs, path)
    /\ SetState(Reset(St))
    /\ refs' = ResetRefs(refs)
    /\ skill_path' = path /\ deep_scan' = deep
    /\ files_to_scan' = <<>> /\ idx' = 1 /\ visited' = {}
    /\ result' = NotFoundError(path)
    /\ first' = Remember(NoteCall(path, deep), path, deep, NotFoundError(path), NoRefs)
    /\ UNCHANGED <<fs, order, pc, edits, report, cli>>

\* scan() on a path that selects no file (lines 90-106).
ScanNoFiles(path, deep) ==
    /\ pc = "ready"
    /\ Exists(fs, path)
    /\ GetFiles(fs, order, path) = <<>>
    /\ SetState(Reset(St))
    /\ refs' = ResetRefs(refs)
    /\ skill_path' = path /\ deep_scan' = deep
    /\ files_to_scan' = <<>> /\ idx' = 1 /\ visited' = {}
    /\ result' = NoFilesError(path)
    /\ first' = Remember(NoteCall(path, deep), path, deep, NoFilesError(path), NoRefs)
    /\ UNCHANGED <<fs, order, pc, edits, report, cli>>

\* scan() up to the for loop (lines 90-108).
ScanBegin(path, deep) ==
    /\ pc = "ready"
    /\ Exists(fs, path)
    /\ GetFiles(fs, order, path) # <<>>
    /\ SetState(Reset(St))
    /\ refs' = ResetRefs(refs)
    /\ skill_path' = path /\ deep_scan' = deep
    /\ files_to_scan' = GetFiles(fs, order, path) /\ idx' = 1 /\ visited' = {}
    /\ pc' = "files"
    /\ first' = NoteCall(path, deep)
    /\ UNCHANGED <<fs, order, result, edits, report, cli>>

\* Where scan() goes after _scan_file returns (lines 109-114).
AfterFile ==
    /\ idx' = idx + 1
    /\ pc' = IF idx < Len(files_to_scan) THEN "files"
             ELSE IF deep_scan THEN "deep" ELSE "rate"

\* One iteration of the for loop: _scan_file reads the file and runs the checks.
ScanFile ==
    /\ pc = "files"
    /\ LET filepath == files_to_scan[idx]
       IN  /\ fs[filepath].mode = "ok"
           /\ SetState(ScanFileContent(St, filepath, fs[filepath].content, deep_scan))
           /\ visited' = visited \cup {filepath}
    /\ AfterFile
    /\ UNCHANGED <<fs, order, skill_path, deep_scan, files_to_scan, result, first, edits, report, cli, refs>>

\* One iteration of the for loop: the read raises and _scan_file records it.
ScanFileFails ==
    /\ pc = "files"
    /\ LET filepath == files_to_scan[idx]
       IN  /\ fs[filepath].mode # "ok"
           /\ SetState(ScanFileError(St, filepath, fs[filepath].mode))
           /\ visited' = visited \cup {filepath}
    /\ AfterFile
    /\ UNCHANGED <<fs, order, skill_path, deep_scan, files_to_scan, result, first, edits, report, cli, refs>>

\* The deep-scan pass (lines 113-114).
DeepScanPass ==
    /\ pc = "deep"
    /\ warnings' = DeepScan(warnings, order, skill_path)
    /\ pc' = "rate"
    /\ UNCHANGED <<fs, order, permissions, file_hashes, skill_path, deep_scan,
                   files_to_scan, idx, result, first, visited, edits, report, cli, refs>>

\* Lines 116-131: rate and return.
ScanReturn ==
    /\ pc = "rate"
    /\ result' = ScanResult(St, skill_path, files_to_scan)
    /\ first' = Remember(first, skill_path, deep_scan, result', refs)
    /\ pc' = "ready"
    /\ UNCHANGED <<fs, order, warnings, permissions, file_hashes, skill_path,
                   deep_scan, files_to_scan, idx, visited, edits, report, cli, refs>>

\* The environment lists the tree in another order.
Relist ==
    /\ pc = "ready"
    /\ order' \in WalkOrders(fs) \ {order}
    /\ UNCHANGED <<fs, warnings, permissions, file_hashes, pc, skill_path,
                   deep_scan, files_to_scan, idx, result, first, visited, edits, report, cli, refs>>

\* The environment adds a line of text to a file.
AddLine(filepath, line) ==
    /\ pc = "ready"
    /\ edits < MaxEdits
    /\ filepath \in DOMAIN fs
    /\ fs' = [fs EXCEPT ![filepath].content = Append(@, line)]
    /\ edits' = edits + 1
    /\ UNCHANGED <<order, warnings, permissions, file_hashes, pc, skill_path,
                   deep_scan, files_to_scan, idx, result, first, visited, report, cli, refs>>

Next ==
    \/ \E path \in ScanPaths, deep \in BOOLEAN : ScanNotFound(path, deep)
    \/ \E path \in ScanPaths, deep \in BOOLEAN : ScanNoFiles(path, deep)
    \/ \E path \in ScanPaths, deep \in BOOLEAN : ScanBegin(path, deep)
    \/ ScanFile
    \/ ScanFileFails
    \/ DeepScanPass
    \/ ScanReturn

Spec == Init /\ [][Next]_vars

----------------------------------------------------------------------------
(* format_report: the report as the lines each block of the function       *)
(* appends (the banner and the scan time left out).                        *)

severity_order == <<"critical", "high", "medium", "low", "info">>

\* severity.upper()
Upper(severity) ==
    CASE severity = "critical" -> "CRITICAL"
      [] severity = "high" -> "HIGH"
      [] severity = "medium" -> "MEDIUM"
      [] severity = "low" -> "LOW"
      [] severity = "info" -> "INFO"

\* Lines 466-474: the lines of the warnings of one severity, in list order.
RECURSIVE SeverityLines(_, _, _)
SeverityLines(ws, severity, verbose) ==
    IF ws = <<>> THEN <<>>
    ELSE LET warning == Head(ws)
             own == IF warning.severity # severity THEN <<>>
                    ELSE <<"[" \o Upper(severity) \o "] " \o warning.description>>
                           \o (IF verbose /\ warning.file # ""
                               THEN <<"file: " \o warning.file>> ELSE <<>>)
         IN  own \o SeverityLines(Tail(ws), severity, verbose)

\* Lines 456-476.
WarningLines(ws, verbose) ==
    IF ws = <<>> THEN <<"no warnings - no obvious security problem found">>
    ELSE <<"warnings (" \o ToString(Len(ws)) \o "):">>
           \o SeverityLines(ws, severity_order[1], verbose)
           \o SeverityLines(ws, severity_order[2], verbose)
           \o SeverityLines(ws, severity_order[3], verbose)
           \o SeverityLines(ws, severity_order[4], verbose)
           \o SeverityLines(ws, severity_order[5], verbose)

DomainsShown == 5
ReadsShown == 5
ImportsShown == 10

\* Lines 482-488: the network domains.
DomainLines(network_domains) ==
    IF network_domains = <<>> THEN <<>>
    ELSE <<"network access:">>
           \o [i \in 1..Min(DomainsShown, Len(network_domains)) |-> "- " \o network_domains[i]]
           \o (IF Len(network_domains) > DomainsShown
               THEN <<"... " \o ToString(Len(network_domains) - DomainsShown)
                        \o " more domains">>
               ELSE <<>>)

\* Lines 490-494: the file-read patterns.
ReadLines(files_read) ==
    IF files_read = <<>> THEN <<>>
    ELSE <<"file access:">>
           \o [i \in 1..Min(ReadsShown, Len(files_read)) |-> "- " \o files_read[i]]

\* ', '.join(names)
RECURSIVE Join(_)
Join(names) ==
    IF names = <<>> THEN ""
    ELSE IF Len(names) = 1 THEN names[1]
    ELSE names[1] \o ", " \o Join(Tail(names))

\* Lines 496-502: the imported modules.
ImportLines(imports) ==
    IF imports = <<>> THEN <<>>
    ELSE <<"imported modules:", Join(Take(imports, ImportsShown))>>
           \o (IF Len(imports) > ImportsShown
               THEN <<"... " \o ToString(Len(imports) - ImportsShown) \o " more">>
               ELSE <<>>)

\* Lines 505-509.
RecommendationLines(recommendations) ==
    IF recommendations = <<>> THEN <<>>
    ELSE <<"recommendations:">>
           \o [i \in 1..Len(recommendations) |-> ToString(i) \o ". " \o recommendations[i]]

FormatReport(r, verbose) ==
    [header |-> <<"skill path: " \o PathText(r.skill_path),
                  "files scanned: " \o ToString(r.files_scanned)>>,
     rating |-> <<"trust rating: " \o r.trust_rating
                     \o " (score: " \o ToString(r.score) \o "/100)",
                  "risk level: " \o r.risk_level>>,
     warnings |-> WarningLines(r.warnings, verbose),
     network |-> DomainLines(r.permissions.network.domains),
     files |-> ReadLines(r.permissions.files.read),
     imports |-> ImportLines(r.permissions.system.imports),
     recommendations |-> RecommendationLines(r.recommendations),
     summary |-> <<"summary:", r.summary>>]

\* A caller formats the result it holds.
FormatReportCall(verbose) ==
    /\ pc = "ready"
    /\ IsResult(result)
    /\ report' = FormatReport(result, verbose)
    /\ UNCHANGED <<fs, order, warnings, permissions, file_hashes, pc, skill_path,
                   deep_scan, files_to_scan, idx, result, first, visited, edits,
                   refs, cli>>

----------------------------------------------------------------------------
(* main(): the command line.  A path on the command line is the sequence   *)
(* of its names, so "https://github.com/x/y" is the path GithubPath.       *)

GithubPath == <<"https:", "", "github.com", "x", "y">>

\* path.startswith('https://github.com/')
IsGithubUrl(path) ==
    Len(path) >= 4 /\ SubSeq(path, 1, 3) = <<"https:", "", "github.com">>

format_choices == {"text", "json"}

\* The command lines main() is run with.
Argvs ==
    {[command |-> c] : c \in {"", "version"}}
        \cup {[command |-> "verify", path |-> <<>>]}
        \cup {[command |-> "scan", path |-> p, deep |-> d, verbose |-> v, format |-> f]
                : p \in ScanPaths \cup {GithubPath}, d \in BOOLEAN, v \in BOOLEAN,
                  f \in format_choices \cup {"xml"}}

\* Lines 567-588 and 605-611: what main() does before it scans.
\* parser.parse_args() exits with status 2 on a command line it rejects (here a
\* format outside the choices of line 553).
ParseArgs(argv) ==
    IF argv.command = "scan" /\ argv.format \notin format_choices
        THEN [argv |-> argv, outcome |-> "usage", status |-> 2]
    ELSE IF argv.command = ""
        THEN [argv |-> argv, outcome |-> "help", status |-> 1]
    ELSE IF argv.command = "version"
        THEN [argv |-> argv, outcome |-> "version", status |-> 0]
    ELSE IF argv.command = "verify"
        THEN [argv |-> argv, outcome |-> "verify", status |-> 0]
    ELSE IF IsGithubUrl(argv.path)
        THEN [argv |-> argv, outcome |-> "github", status |-> 1]
    ELSE [argv |-> argv, outcome |-> "scanning", status |-> -1]

\* Lines 592-603: the exit status after scan() has returned.
ExitStatus(r) ==
    IF IsError(r) THEN 1
    ELSE IF r.trust_rating = "F" THEN 2
    ELSE 0

\* main() up to the call of scan(), or to its exit.
MainStart(argv) ==
    /\ pc = "ready"
    /\ cli = NotStarted
    /\ result = <<>>
    /\ cli' = ParseArgs(argv)
    /\ UNCHANGED <<fs, order, warnings, permissions, file_hashes, pc, skill_path,
                   deep_scan, files_to_scan, idx, result, first, visited, edits,
                   refs, report>>

\* main() calls scanner.scan(path, deep_scan=args.deep), once.
MainCalls(path, deep) ==
    /\ cli.outcome = "scanning"
    /\ result = <<>>
    /\ cli.argv.path = path
    /\ cli.argv.deep = deep

\* main() after scan() has returned (lines 592-603).
MainFinish ==
    /\ pc = "ready"
    /\ cli.outcome = "scanning"
    /\ result # <<>>
    /\ report' = IF IsResult(result) /\ cli.argv.format = "text"
                 THEN FormatReport(result, cli.argv.verbose)
                 ELSE report
    /\ cli' = [cli EXCEPT !.outcome = IF IsError(result) THEN "error" ELSE "graded",
                          !.status = ExitStatus(result)]
    /\ UNCHANGED <<fs, order, warnings, permissions, file_hashes, pc, skill_path,
                   deep_scan, files_to_scan, idx, result, first, visited, edits, refs>>

NextMain ==
    \/ \E argv \in Argvs : MainStart(argv)
    \/ \E path \in ScanPaths, deep \in BOOLEAN :
          MainCalls(path, deep) /\ ScanNotFound(path, deep)
    \/ \E path \in ScanPaths, deep \in BOOLEAN :
          MainCalls(path, deep) /\ ScanNoFiles(path, deep)
    \/ \E path \in ScanPaths, deep \in BOOLEAN :
          MainCalls(path, deep) /\ ScanBegin(path, deep)
    \/ ScanFile
    \/ ScanFileFails
    \/ DeepScanPass
    \/ ScanReturn
    \/ MainFinish

SpecMain == Init /\ [][NextMain]_vars

----------------------------------------------------------------------------
(* Other specifications.                                                   *)

MaxWarnings == 5    \* length of a warning list handed to the rating engine

Severities == {"critical", "high", "medium", "low", "info"}

\* The warning lists the rating engine is applied to.
RatingInputs ==
    UNION {[1..n -> {Warning("sample", sev, "sample", "f.py") : sev \in Severities}]
              : n \in 0..MaxWarnings}

\* The rating engine applied to any warning list: scan() at line 116.
InitRating ==
    /\ fs = <<>>
    /\ order = <<>>
    /\ warnings \in RatingInputs
    /\ permissions = EmptyPermissions
    /\ file_hashes = <<>>
    /\ pc = "rate"
    /\ skill_path = <<>>
    /\ deep_scan = FALSE
    /\ files_to_scan = <<>>
    /\ idx = 1
    /\ result = <<>>
    /\ first = [set |-> FALSE, interleaved |-> FALSE]
    /\ visited = {}
    /\ edits = 0
    /\ refs = [warnings |-> 0, file_hashes |-> 1]
    /\ report = <<>>
    /\ cli = NotStarted

SpecRating == InitRating /\ [][ScanReturn]_vars

\* Scans of one tree that the environment lists in changing orders.
InitOrder ==
    InitOn({t \in TreesOf(Samples) :
               DOMAIN t = {<<"README">>, <<"lib", "a.py">>, <<"src", "a.py">>}})

NextOrder == Next \/ Relist

SpecOrder == InitOrder /\ [][NextOrder]_vars

\* Scans of a tree whose files grow by added lines.
InitGrow ==
    InitOn({t \in TreesOf({Base64x6, Base64x7}) :
               /\ DOMAIN t = {<<"README">>, <<"lib", "a.py">>, <<"src", "a.py">>}
               /\ \A f \in DOMAIN t : t[f].mode # "openfail"})

NextGrow == Next \/ \E f \in ScannableSlots, line \in Lines : AddLine(f, line)

SpecGrow == InitGrow /\ [][NextGrow]_vars

\* Scans of a tree holding hidden files.
MaxHidden == 2      \* hidden files in a tree

HiddenSlots == {<<".evil.py">>, <<"lib", ".evil.py">>, <<"node_modules", ".evil.py">>}

HiddenTrees ==
    UNION {
        {[f \in {<<"b.py">>} \cup R \cup H |->
              IF f = <<"b.py">> THEN o ELSE [content |-> CleanText, mode |-> "ok"]]
            : o \in FileOptions({CleanText})}
        : <<R, H>> \in {rh \in {{}, {<<"README">>}} \X (SUBSET HiddenSlots)
                            : Cardinality(rh[2]) <= MaxHidden} }

InitHidden == InitOn(HiddenTrees)

SpecHidden == InitHidden /\ [][Next]_vars

\* Scans of one file whose text is any sequence of distinct lines among those
\* that touch the SSH directory, the environment, JSON encoding and the network.
MaxLines == 4       \* lines of the file's text

SshLine == "open('/home/u/.ssh/id_rsa')"
EnvLine == "v = os.getenv('HOME')"
JsonLine == "s = json.dumps(v)"
PostLine == "requests.post(url, data=v)"
FetchLine == "urllib.request.urlopen('https://api.example.com/data')"

FileTexts ==
    UNION {{t \in [1..n -> {SshLine, EnvLine, JsonLine, PostLine, FetchLine}] :
               \A i, j \in 1..n : i # j => t[i] # t[j]}
              : n \in 1..MaxLines}

FileTrees ==
    {[f \in {<<"README">>} |-> [content |-> CleanText, mode |-> "ok"]]}
        \cup {[f \in {<<"README">>, <<"b.py">>} |->
                  IF f = <<"b.py">> THEN o ELSE [content |-> CleanText, mode |-> "ok"]]
                : o \in FileOptions(FileTexts)}

InitFile == InitOn(FileTrees)

SpecFile == InitFile /\ [][Next]_vars

\* Scans of a file that names many reads, hosts and modules, and reports of
\* their results.
ReportText(reads, nd, ni) ==
    reads \o [i \in 1..nd |-> UrlLine(i)] \o [i \in 1..ni |-> ImportLine(i)]

ReportTexts ==
    {ReportText(reads, nd, ni) :
        reads \in {<<>>, <<ReadFive>>, <<ReadFive, ReadSixth>>},
        nd \in {0, DomainsShown, DomainsShown + 1, MaxDomains},
        ni \in {0, ImportsShown, ImportsShown + 1, MaxImports}}

ReportTrees ==
    {[f \in {<<"README">>} |-> [content |-> CleanText, mode |-> "ok"]]}
        \cup {[f \in {<<"README">>, <<"b.py">>} |->
                  IF f = <<"b.py">> THEN o ELSE [content |-> CleanText, mode |-> "ok"]]
                : o \in FileOptions(ReportTexts)}

InitReport == InitOn(ReportTrees)

NextReport == Next \/ \E verbose \in BOOLEAN : FormatReportCall(verbose)

SpecReport == InitReport /\ [][NextReport]_vars

----------------------------------------------------------------------------
(* Claims.                                                                 *)

Count(ws, sev) == Cardinality({i \in 1..Len(ws) : ws[i].severity = sev})

ClaimedScore(ws) ==
    LET raw == 100 - (25 * Count(ws, "critical") + 10 * Count(ws, "high")
                      + 5 * Count(ws, "medium") + 2 * Count(ws, "low")
                      + 0 * Count(ws, "info"))
                   - (IF Count(ws, "critical") >= 2 THEN 20 ELSE 0)
                   - (IF Count(ws, "high") >= 3 THEN 10 ELSE 0)
    IN  IF raw < 0 THEN 0 ELSE IF raw > 100 THEN 100 ELSE raw

\* C1: for every warning collection the rating's score is 100 minus 25 per
\* critical, 10 per high, 5 per medium, 2 per low and 0 per info warning, minus
\* 20 when two or more are critical, minus 10 when three or more are high,
\* clamped to 0..100.
C1_ScoreFormula ==
    IsResult(result) =>
        /\ result.score = ClaimedScore(result.warnings)
        /\ result.score \in 0..100

C1_Witness ==
    /\ IsResult(result)
    /\ Count(result.warnings, "critical") = 2
    /\ Count(result.warnings, "high") = 3
    /\ result.score = 0

\* C2: the grade and the risk level of a returned result are fixed by its
\* score: 95..100 A+/very low, 90..94 A/low, 80..89 B/medium-low, 70..79
\* C/medium, 60..69 D/high, below 60 F/very high.
C2_GradeMapping ==
    IsResult(result) =>
        LET s == result.score
            g == <<result.trust_rating, result.risk_level>>
        IN  /\ s \in 0..100
            /\ (s \in 95..100) => g = <<"A+", "jidi">>
            /\ (s \in 90..94) => g = <<"A", "di">>
            /\ (s \in 80..89) => g = <<"B", "zhongdi">>
            /\ (s \in 70..79) => g = <<"C", "zhongdeng">>
            /\ (s \in 60..69) => g = <<"D", "gao">>
            /\ (s \in 0..59) => g = <<"F", "jigao">>

C2_Witness ==
    /\ pc = "ready"
    /\ IsResult(result)
    /\ Count(result.warnings, "high") = 1
    /\ Count(result.warnings, "medium") = 3
    /\ result.score = 75
    /\ result.trust_rating = "C"

\* C3: at every point of a scan the warning collection holds no two warnings
\* that agree on type, severity, description and file.
C3_NoDuplicateWarnings ==
    \A i, j \in 1..Len(warnings) : i # j => warnings[i] # warnings[j]

\* The warnings the result carries for a rule of a category.
RuleWarnings(ws, category, rule) ==
    {i \in 1..Len(ws) : /\ ws[i].type = category
                        /\ ws[i].description = rule[2]
                        /\ ws[i].severity = rule[3]}

\* C4: when the same rule matches in two different scanned files, the
\* result holds two separate warnings for that rule, one per file.
C4_DistinctFilesDistinctWarnings ==
    (pc = "ready" /\ IsResult(result)) =>
        \A f, g \in Range(files_to_scan) :
            \A i \in 1..Len(DANGEROUS_COMMANDS) :
                (/\ f # g
                 /\ fs[f].mode = "ok" /\ fs[g].mode = "ok"
                 /\ Search(DANGEROUS_COMMANDS[i][1], fs[f].content)
                 /\ Search(DANGEROUS_COMMANDS[i][1], fs[g].content))
                => Cardinality(RuleWarnings(result.warnings, "system_command",
                                            DANGEROUS_COMMANDS[i])) >= 2

\* Whether the last call's path is missing, and what it selects.
PathMissing ==
    skill_path # <<>> /\ ~\E f \in DOMAIN fs : IsPrefix(skill_path, f)

SelectionOf(path) ==
    {f \in DOMAIN fs :
        IF path \in DOMAIN fs
        THEN f = path /\ ExtensionOf(Basename(f)) \in scannable_extensions
        ELSE /\ IsPrefix(path, f)
             /\ ExtensionOf(Basename(f)) \in scannable_extensions
             /\ \A k \in (Len(path) + 1)..(Len(f) - 1) :
                    ~(StartsWithDot(f[k]) \/ f[k] \in non_source_dirs)}

Returned == pc = "ready" /\ DOMAIN result # {}

\* C5: a scan of a missing path returns the NotFound error and a scan that
\* selects no file returns the NoScannableFiles error; the returned value
\* holds the error alone and no file was evaluated.
C5_ErrorsAreTerminal ==
    Returned =>
        /\ PathMissing =>
              /\ result = [error |-> "Path not found: " \o PathText(skill_path)]
              /\ DOMAIN result = {"error"}
              /\ visited = {}
        /\ (~PathMissing /\ SelectionOf(skill_path) = {}) =>
              /\ result = [error |-> "No scannable files found in: " \o PathText(skill_path)]
              /\ DOMAIN result = {"error"}
              /\ visited = {}

C5_Witness ==
    /\ Returned
    /\ ~PathMissing
    /\ SelectionOf(skill_path) = {}
    /\ IsError(result)
    /\ first.set /\ IsResult(first.result)

Unreadable(files) == {f \in Range(files) : fs[f].mode # "ok"}
Readable(files) == {f \in Range(files) : fs[f].mode = "ok"}

\* C6 (the failing iteration): it appends one low-severity warning for the
\* file and changes neither the permissions nor the fingerprints, and the
\* scan goes on.
C6_Step ==
    (pc = "files" /\ fs[files_to_scan[idx]].mode # "ok") =>
        /\ Len(warnings') = Len(warnings) + 1
        /\ SubSeq(warnings', 1, Len(warnings)) = warnings
        /\ warnings'[Len(warnings')].type = "file_error"
        /\ warnings'[Len(warnings')].severity = "low"
        /\ warnings'[Len(warnings')].file = Basename(files_to_scan[idx])
        /\ permissions' = permissions
        /\ file_hashes' = file_hashes
        /\ pc' \in {"files", "deep", "rate"}

\* C6 (the returned value): a scan that selected files returns a result, not
\* an error; every selected file was evaluated; the result holds one
\* low-severity file_error warning per unreadable file and fingerprints of
\* readable files only.
C6_Final ==
    (Returned /\ files_to_scan # <<>>) =>
        /\ IsResult(result)
        /\ result.score \in 0..100
        /\ visited = Range(files_to_scan)
        /\ result.files_scanned = Len(files_to_scan)
        /\ Cardinality({i \in 1..Len(result.warnings) :
                           result.warnings[i].type = "file_error"})
              = Cardinality(Unreadable(files_to_scan))
        /\ \A i \in 1..Len(result.warnings) :
              result.warnings[i].type = "file_error" =>
                 /\ result.warnings[i].severity = "low"
                 /\ result.warnings[i].file \in
                        {Basename(f) : f \in Unreadable(files_to_scan)}
        /\ DOMAIN result.file_hashes = {Basename(f) : f \in Readable(files_to_scan)}

\* C6: a failed read of one file is recorded as one low-severity warning
\* local to the file, contributes nothing else, and does not abort the scan.
C6_ReadFailureIsLocal == [][C6_Step]_vars /\ []C6_Final

C6_Witness ==
    /\ Returned
    /\ IsResult(result)
    /\ Unreadable(files_to_scan) # {}
    /\ Readable(files_to_scan) # {}
    /\ result.score < 90

SameCallAsFirst ==
    /\ Returned
    /\ first.set
    /\ skill_path = first.skill_path
    /\ deep_scan = first.deep_scan

\* C7: every scan starts from empty collections, and a call with the
\* arguments of the first call returns what the first call returned,
\* whatever calls (errors included) ran in between.
C7_NoCrossScanState ==
    /\ (pc = "files" /\ idx = 1) =>
          /\ warnings = <<>>
          /\ permissions = EmptyPermissions
          /\ file_hashes = <<>>
    /\ (Returned /\ IsError(result)) =>
          /\ warnings = <<>>
          /\ permissions = EmptyPermissions
          /\ file_hashes = <<>>
    /\ SameCallAsFirst => result = first.result

C7_Witness ==
    /\ SameCallAsFirst
    /\ first.interleaved
    /\ IsResult(result)
    /\ result.warnings # <<>>
    /\ result.score < 100

\* C8: the final collections do not depend on the order in which the files
\* are evaluated: the same set of warnings, the same permissions, the same
\* fingerprints, the same score and grade.
C8_OrderIndependent ==
    (SameCallAsFirst /\ IsResult(result) /\ IsResult(first.result)) =>
        /\ Range(result.warnings) = Range(first.result.warnings)
        /\ result.permissions = first.result.permissions
        /\ result.file_hashes = first.result.file_hashes
        /\ result.score = first.result.score
        /\ result.trust_rating = first.result.trust_rating

\* C9: adding a triggering pattern to a file never raises the score.
C9_Monotone ==
    (SameCallAsFirst /\ IsResult(result) /\ IsResult(first.result)) =>
        result.score <= first.result.score

\* The files below the scanned path that lie inside a pruned directory.
PrunedFiles ==
    {f \in DOMAIN fs :
        /\ IsPrefix(skill_path, f) /\ skill_path # f
        /\ \E k \in (Len(skill_path) + 1)..(Len(f) - 1) :
              StartsWithDot(f[k]) \/ f[k] \in non_source_dirs}

\* C10: a file inside a pruned directory is never visited, with deep scan
\* off or on, and no warning names it in its file field or its description.
C10_PrunedNeverReferenced ==
    \A f \in PrunedFiles :
        /\ f \notin visited
        /\ \A i \in 1..Len(warnings) :
              /\ warnings[i].file # Basename(f)
              /\ warnings[i].description # "found hidden file: " \o Basename(f)

\* The hidden files below the scanned directory.
HiddenBelow(path) ==
    {f \in DOMAIN fs : IsPrefix(path, f) /\ path # f /\ StartsWithDot(Basename(f))}

HiddenWarnings(ws) == {i \in 1..Len(ws) : ws[i].type = "hidden_file"}

\* C11: with deep scan off a result holds no hidden-file warning; with deep
\* scan on it holds one low-severity hidden-file warning with an empty file
\* field per hidden entry of the scanned tree (n entries, n warnings).
C11_DeepScanToggle ==
    (Returned /\ IsResult(result)) =>
        /\ ~deep_scan => HiddenWarnings(result.warnings) = {}
        /\ deep_scan =>
              /\ Cardinality(HiddenWarnings(result.warnings))
                    = Cardinality(HiddenBelow(skill_path))
              /\ \A i \in HiddenWarnings(result.warnings) :
                    /\ result.warnings[i].severity = "low"
                    /\ result.warnings[i].file = ""

\* The text of the one file a returned scan evaluated.
OneFileScanned ==
    /\ Returned /\ IsResult(result)
    /\ Len(files_to_scan) = 1
    /\ fs[files_to_scan[1]].mode = "ok"

ScannedText == fs[files_to_scan[1]].content

IsMalicious(content) ==
    {SshLine, EnvLine, JsonLine, PostLine} \subseteq Range(content)

HasWarning(ws, type, severity) ==
    \E i \in 1..Len(ws) : ws[i].type = type /\ ws[i].severity = severity

CriticalPair(r) ==
    /\ \E i \in 1..Len(r.warnings) :
          /\ r.warnings[i].type = "sensitive_file"
          /\ r.warnings[i].severity = "critical"
          /\ r.warnings[i].description = "access SSH directory"
    /\ HasWarning(r.warnings, "data_exfiltration", "critical")

\* C12 as stated: a file that reads the SSH directory, reads the
\* environment, serializes it and posts it yields a critical SSH warning, a
\* critical exfiltration warning, score 0 and grade F.
C12_MaliciousScoreZero ==
    (OneFileScanned /\ IsMalicious(ScannedText)) =>
        /\ CriticalPair(result)
        /\ result.score = 0
        /\ result.trust_rating = "F"

\* C12 (amended): such a file yields a critical SSH warning, a critical
\* exfiltration warning, a score of at most 30 and grade F.
C12_MaliciousSkill ==
    (OneFileScanned /\ IsMalicious(ScannedText)) =>
        /\ CriticalPair(result)
        /\ result.score <= 30
        /\ result.trust_rating = "F"

C12_Witness ==
    /\ OneFileScanned
    /\ ScannedText = <<SshLine, EnvLine, JsonLine, PostLine>>
    /\ CriticalPair(result)
    /\ result.score = 30
    /\ result.trust_rating = "F"

ExfiltrationWarnings(ws) == {i \in 1..Len(ws) : ws[i].type = "data_exfiltration"}

\* C17: a scanned file raises a data-exfiltration warning exactly when it
\* reads the environment and makes an outbound write-style call (an outbound
\* read raises none); then there is one such warning, critical when the file
\* also serializes to JSON and high otherwise.
C17_ExfiltrationCorrelation ==
    OneFileScanned =>
        LET content == ScannedText
            reads_env == EnvLine \in Range(content)
            writes_out == PostLine \in Range(content)
            serializes == JsonLine \in Range(content)
            raised == ExfiltrationWarnings(result.warnings)
        IN  /\ (reads_env /\ writes_out) <=> raised # {}
            /\ Cardinality(raised) <= 1
            /\ \A i \in raised :
                  result.warnings[i].severity = IF serializes THEN "critical" ELSE "high"

Exited == cli.status # -1

ScanCommand == cli.outcome # "none" /\ cli.argv.command = "scan"

\* C13: the scan command exits with 0 after a result graded other than F,
\* with one non-zero status after a result graded F, with another non-zero
\* status after an error of missing or empty input, and with the grade-F
\* status in no other case.
C13_ExitStatus ==
    (Exited /\ ScanCommand) =>
        /\ (IsResult(result) /\ result.trust_rating # "F") => cli.status = 0
        /\ (IsResult(result) /\ result.trust_rating = "F") => cli.status = 2
        /\ IsError(result) => cli.status \notin {0, 2}
        /\ cli.status = 2 => (IsResult(result) /\ result.trust_rating = "F")

\* The rules of DANGEROUS_COMMANDS for the subprocess primitives.
SpawnRules == {DANGEROUS_COMMANDS[2], DANGEROUS_COMMANDS[3]}

SpawnWarned(ws) ==
    \E i \in 1..Len(ws), rule \in SpawnRules :
        /\ ws[i].type = "system_command"
        /\ ws[i].description = rule[2]

\* C14: when a scanned file raised the system_command warning of a
\* subprocess call, the recorded commands of the permission set hold the
\* process-spawning capability and the recommendations hold the
\* provenance-review recommendation.
C14_SpawnRecommended ==
    (Returned /\ IsResult(result) /\ SpawnWarned(result.warnings)) =>
        /\ \E c \in permissions.system.commands : c \in {rule[1] : rule \in SpawnRules}
        /\ \E c \in Range(result.permissions.system.commands) :
              c \in {rule[1] : rule \in SpawnRules}
        /\ "skill runs system commands, confirm the source is trusted"
              \in Range(result.recommendations)

FirstResultNow ==
    [first.result EXCEPT
        !.warnings = IF first.refs.warnings = refs.warnings THEN warnings ELSE @,
        !.file_hashes = IF first.refs.file_hashes = refs.file_hashes
                        THEN file_hashes ELSE @]

C16_Kept ==
    (first.set /\ IsResult(first.result)) => FirstResultNow = first.result

C16_Format ==
    report' # report =>
        /\ result' = result
        /\ first' = first
        /\ <<warnings', file_hashes', refs'>> = <<warnings, file_hashes, refs>>
        /\ report'.rating[1] = "trust rating: " \o result.trust_rating
                                  \o " (score: " \o ToString(result.score) \o "/100)"

\* C16: a returned result keeps its warnings, permissions, fingerprints,
\* score and grade through every later scan of the same scanner, successful
\* or failing, and format_report changes no field of the result it formats.
C16_ResultImmutable == []C16_Kept /\ [][C16_Format]_vars

C16_Witness ==
    /\ first.set /\ IsResult(first.result)
    /\ first.result.warnings # <<>>
    /\ first.interleaved
    /\ Returned /\ IsError(result)
    /\ warnings = <<>>
    /\ FirstResultNow.warnings = first.result.warnings
    /\ report # <<>>

Last(seq) == seq[Len(seq)]

C18_Step ==
    report' # report =>
        LET nd == Cardinality(permissions.network.domains)
            nr == Cardinality(permissions.files.read)
            ni == Cardinality(permissions.system.imports)
        IN  /\ Len(report'.network) <= 1 + DomainsShown + 1
            /\ Len(report'.files) <= 1 + ReadsShown + 1
            /\ nd > DomainsShown =>
                  Last(report'.network)
                      = "... " \o ToString(nd - DomainsShown) \o " more domains"
            /\ nr > ReadsShown =>
                  /\ Len(report'.files) = 1 + ReadsShown + 1
                  /\ Last(report'.files) = "... " \o ToString(nr - ReadsShown) \o " more"
            /\ ni > ImportsShown =>
                  Last(report'.imports) = "... " \o ToString(ni - ImportsShown) \o " more"

\* C18: each of the report's three list displays (network domains, file-read
\* patterns, imported modules) shows a fixed-length prefix, and when the scan
\* recorded more entries than shown the display ends with an "N more" line,
\* N being the number of recorded entries not shown.
C18_TruncationExplicit == [][C18_Step]_vars

====
